---- MODULE Spec2Model ----
(***************************************************************************)
(* A model of fetcher.py of arso-meteo-dl: the response decoder, the       *)
(* location directory (sweep and artifact), the station resolver, the      *)
(* data fetcher, the parallel orchestrator and the table builder.          *)
(*                                                                         *)
(* Python values are represented as follows.                               *)
(*   str            a sequence of one-character strings (decoder), or a    *)
(*                  TLA+ string where only equality is used (names)        *)
(*   tuple (y, m)   the record [y |-> y, m |-> m]          (Tup)           *)
(*   JSON list      the sequence <<y, m>>                                  *)
(*   dict           a function                                             *)
(*   None / unset   a tagged record, never a bare value                    *)
(*   exception      the name of its class                                  *)
(***************************************************************************)
EXTENDS Integers, Sequences, FiniteSets, TLC

VARIABLES
    \* ---- response decoder
    body,           \* the response text handed to pujs_to_json
    decoded,        \* what the call ended in
    dpc,            \* "idle" | "input" | "done"
    \* ---- location directory
    presentYear,    \* the calendar year in which the program runs
    archive,        \* the remote archive: station number -> name, activity
    artifact,       \* the file locations_all.txt
    lpc,            \* position of the process that constructs Locations()
    cursor,         \* index of the next window of the sweep
    locations_all,  \* the local dict of _download_all_locations
    all_locations,  \* the attribute Locations._all_locations
    queries,        \* log of the windows this sweep has asked for and merged
    lexc,           \* the exception the process ended in
    prevFailed,     \* the previous process run ended in a failed sweep
    \* ---- station download
    station_name,   \* the argument of download_data_for_station
    tasks,          \* the futures of process_map, in submission order
    data,           \* the Manager().dict() shared with the workers
    work,           \* the two lists get_dl_months_list returned
    ppc,            \* position of the parent process
    ret,            \* what download_data_for_station returned
    tableInput,     \* what __main__ handed to clean_station_data
    \* ---- table builder
    raw,            \* the argument of clean_station_data
    table,          \* what clean_station_data ended in
    tpc             \* "idle" | "input" | "done"

decVars == <<body, decoded, dpc>>
locVars == <<presentYear, archive, artifact, lpc, cursor, locations_all,
             all_locations, queries, lexc, prevFailed>>
stVars  == <<station_name, work, tasks, data, ppc, ret, tableInput>>
tblVars == <<raw, table, tpc>>
vars    == <<decVars, locVars, stVars, tblVars>>

Range(s) == {s[i] : i \in DOMAIN s}

(***************************************************************************)
(* 1. Response decoder: WebMetUtils.pujs_to_json                           *)
(***************************************************************************)

\* Longest inner text (between the envelope's prefix and suffix) enumerated.
MaxInner == 5

\* root.text[16:-1]: the 16 characters of "AcademaPUJS.set(" and the final ")".
ENVELOPE_PREFIX_LEN == 16
ENVELOPE_SUFFIX_LEN == 1

\* The characters inner texts are drawn from.
Char == {"{", "}", "a", ":", ",", "1"}

PUJS_PREFIX ==
    <<"A", "c", "a", "d", "e", "m", "a", "P", "U", "J", "S", ".", "s", "e", "t", "(">>
PUJS_SUFFIX == <<")">>
\* Sixteen characters that are not the envelope's prefix.
OTHER_PREFIX == [i \in 1..ENVELOPE_PREFIX_LEN |-> "x"]

\* Python's s[lo:-hi] for lo, hi >= 0.
PySlice(s, lo, hi) == SubSeq(s, lo + 1, Len(s) - hi)

\* Python's s.replace(":,", ":'',") from position i on: leftmost matches,
\* not overlapping.
RECURSIVE ReplaceValueless(_, _)
ReplaceValueless(s, i) ==
    IF i > Len(s) THEN <<>>
    ELSE IF i < Len(s) /\ s[i] = ":" /\ s[i + 1] = ","
         THEN <<":", "'", "'", ",">> \o ReplaceValueless(s, i + 2)
         ELSE <<s[i]>> \o ReplaceValueless(s, i + 1)

\* json5.loads on the characters above. Each parser takes the position of the
\* first character to read and gives the position after what it read, or 0.
RECURSIVE SkipDigits(_, _)
SkipDigits(s, i) ==
    IF i <= Len(s) /\ s[i] = "1" THEN SkipDigits(s, i + 1) ELSE i

RECURSIVE SkipIdentifier(_, _)
SkipIdentifier(s, i) ==
    IF i <= Len(s) /\ s[i] \in {"a", "1"} THEN SkipIdentifier(s, i + 1) ELSE i

RECURSIVE CloseString(_, _)
CloseString(s, i) ==
    IF i > Len(s) THEN 0
    ELSE IF s[i] = "'" THEN i + 1 ELSE CloseString(s, i + 1)

\* A member's key: an identifier name or a string.
Json5Key(s, i) ==
    IF i > Len(s) THEN 0
    ELSE IF s[i] = "a" THEN SkipIdentifier(s, i + 1)
    ELSE IF s[i] = "'" THEN CloseString(s, i + 1)
    ELSE 0

RECURSIVE Json5Value(_, _), Json5Members(_, _)
Json5Value(s, i) ==
    IF i > Len(s) THEN 0
    ELSE IF s[i] = "1" THEN SkipDigits(s, i + 1)
    ELSE IF s[i] = "'" THEN CloseString(s, i + 1)
    ELSE IF s[i] = "{" THEN Json5Members(s, i + 1)
    ELSE 0

\* After "{" or after a member's ",": the closing "}" (so a trailing comma is
\* accepted) or one more member.
Json5Members(s, i) ==
    IF i > Len(s) THEN 0
    ELSE IF s[i] = "}" THEN i + 1
    ELSE LET k == Json5Key(s, i) IN
         IF k = 0 \/ k > Len(s) \/ s[k] # ":" THEN 0
         ELSE LET v == Json5Value(s, k + 1) IN
              IF v = 0 \/ v > Len(s) THEN 0
              ELSE IF s[v] = "}" THEN v + 1
              ELSE IF s[v] = "," THEN Json5Members(s, v + 1)
              ELSE 0

\* json5.loads: the kind of value parsed, or "error" (it raises).
Json5Loads(s) ==
    IF s = <<>> \/ Json5Value(s, 1) # Len(s) + 1 THEN "error"
    ELSE IF s[1] = "{" THEN "dict"
    ELSE IF s[1] = "'" THEN "str"
    ELSE "number"

\* The text pujs_to_json hands to json5.loads.
DataStr(text) ==
    ReplaceValueless(PySlice(text, ENVELOPE_PREFIX_LEN, ENVELOPE_SUFFIX_LEN), 1)

NoOutcome == [out |-> "none", exc |-> "", arg |-> <<>>, val |-> ""]
Raise(e, a) == [out |-> "raise", exc |-> e, arg |-> a, val |-> ""]
Return(v) == [out |-> "return", exc |-> "", arg |-> <<>>, val |-> v]

\* ET.fromstring raises ParseError on text that is not well-formed XML; the
\* root of <pujs/> has text None, and None[16:-1] raises TypeError.
pujs_to_json(b) ==
    IF b.xml = "malformed" THEN Raise("ParseError", <<>>)
    ELSE IF b.xml = "notext" THEN Raise("TypeError", <<>>)
    ELSE LET data_str == DataStr(b.text) IN
         IF Json5Loads(data_str) = "error"
         THEN Raise("ValueError", data_str)
         ELSE Return(Json5Loads(data_str))

Inners == UNION {[1..n -> Char] : n \in 0..MaxInner}

Bodies ==
    {[xml |-> x, text |-> <<>>] : x \in {"malformed", "notext"}}
    \cup {[xml |-> "text", text |-> p \o inner \o q] :
            p \in {PUJS_PREFIX, OTHER_PREFIX, <<>>},
            inner \in Inners,
            q \in {PUJS_SUFFIX, <<>>}}

NoBody == [xml |-> "none", text |-> <<>>]

DecIdle == body = NoBody /\ decoded = NoOutcome /\ dpc = "idle"

Decode ==
    /\ dpc = "input"
    /\ decoded' = pujs_to_json(body)
    /\ dpc' = "done"
    /\ UNCHANGED <<body, locVars, stVars, tblVars>>

\* The body's text is "AcademaPUJS.set(" ... ")".
HasEnvelope(b) ==
    /\ b.xml = "text"
    /\ Len(b.text) >= ENVELOPE_PREFIX_LEN + ENVELOPE_SUFFIX_LEN
    /\ SubSeq(b.text, 1, ENVELOPE_PREFIX_LEN) = PUJS_PREFIX
    /\ SubSeq(b.text, Len(b.text), Len(b.text)) = PUJS_SUFFIX

(***************************************************************************)
(* 2. Location directory: Locations                                        *)
(***************************************************************************)

\* Stations of the remote archive.
NumStations == 2
StationNums == 1..NumStations

\* range(1948, 2023) and range(1, 13) of _download_all_locations.
ARCHIVE_START == 1948
SWEEP_END == 2023
MONTH_FIRST == 1
MONTH_END == 13

\* The station name of __main__, and the names stations of the archive have.
STATION_NAME == "LENDAVA"
StationNames == {STATION_NAME, "Lendava"}

\* A Python tuple (year, month), and the JSON list json.dumps makes of it.
Tup(y, m) == [y |-> y, m |-> m]
JsonList(t) == <<t.y, t.m>>

\* The key "_<n>" of a station in the archive's responses.
IdKey(n) == <<"_", n>>

\* [(year, month) for month in range(1, 13) for year in range(1948, 2023)]:
\* the month is the outer loop, the year the inner one.
WindowList ==
    LET ny == SWEEP_END - ARCHIVE_START
        nm == MONTH_END - MONTH_FIRST
    IN  [i \in 1..(ny * nm) |->
            Tup(ARCHIVE_START + ((i - 1) % ny), MONTH_FIRST + ((i - 1) \div ny))]

\* When a station of the archive was in operation.
Activities == {"never", "recent", "always"}
Active(a, w) ==
    CASE a = "never" -> FALSE
      [] a = "recent" -> w.y >= SWEEP_END - 1
      [] OTHER -> TRUE

\* The "points" of the archive's locations.xml response for window w.
Points(w) ==
    [k \in {IdKey(n) : n \in {x \in StationNums : Active(archive[x].active, w)}}
        |-> [name |-> archive[k[2]].name]]

\* Locations._fetch_locations(year, month) when the request ended in `status`:
\* None on a non-success status, else what pujs_to_json gives or raises.
_fetch_locations(w, status) ==
    CASE status = "http_error" -> [out |-> "none", exc |-> "", points |-> <<>>]
      [] status = "bad_json" -> [out |-> "raise", exc |-> "ValueError", points |-> <<>>]
      [] status = "bad_xml" -> [out |-> "raise", exc |-> "ParseError", points |-> <<>>]
      [] OTHER -> [out |-> "return", exc |-> "", points |-> Points(w)]

Statuses == {"ok", "http_error", "bad_json", "bad_xml"}

\* The loop body of _download_all_locations: append the window to the record of
\* every id returned, or create the record from the response's metadata.
MergeWindow(all, locations, year_month) ==
    [id \in DOMAIN all \cup DOMAIN locations |->
        IF id \in DOMAIN all
        THEN IF id \in DOMAIN locations
             THEN [all[id] EXCEPT !.year_months = Append(@, year_month)]
             ELSE all[id]
        ELSE [name |-> locations[id].name, year_months |-> <<year_month>>]]

\* json.dumps(locations_all): tuples are written as lists.
json_dumps(all) ==
    [id \in DOMAIN all |->
        [name |-> all[id].name,
         year_months |-> [i \in DOMAIN all[id].year_months |->
                             JsonList(all[id].year_months[i])]]]

\* pd.DataFrame(json.loads(text)).transpose(): one row per station id. The order
\* of the rows (the dict's insertion order) is not kept here; whoever iterates
\* the index takes the rows in any order.
LoadDataFrame(text) == [index |-> DOMAIN text, loc |-> text]

NoFile == [exists |-> FALSE, text |-> <<>>]
Unset == [set |-> FALSE, df |-> [index |-> {}, loc |-> <<>>]]

\* Locations.__init__: load the artifact, or start the sweep.
Construct ==
    /\ lpc = "start"
    /\ IF artifact.exists
       THEN /\ all_locations' = [set |-> TRUE, df |-> LoadDataFrame(artifact.text)]
            /\ lpc' = "constructed"
            /\ UNCHANGED <<cursor, locations_all, queries>>
       ELSE /\ lpc' = "sweep"
            /\ cursor' = 1
            /\ locations_all' = <<>>
            /\ queries' = <<>>
            /\ UNCHANGED all_locations
    /\ UNCHANGED <<presentYear, archive, artifact, lexc, prevFailed>>
    /\ UNCHANGED <<decVars, stVars, tblVars>>

\* (mutant) the file is written inside the loop, after the first window.
SweepDone_InsideLoop(c) == TRUE

\* The for loop has taken its last window once the window at index c is merged.
SweepDone(c) == c = Len(WindowList)

\* One iteration of the loop of _download_all_locations; the last one is
\* followed by the write of locations_all.txt. Subscripting the None of a
\* non-success status raises TypeError; an exception ends the process and
\* its frame (the dict, the loop's position) with it.
SweepStep ==
    /\ lpc = "sweep"
    /\ cursor <= Len(WindowList)
    /\ \E status \in Statuses :
        LET year_month == WindowList[cursor]
            r == _fetch_locations(year_month, status)
            merged == MergeWindow(locations_all, r.points, year_month)
        IN  IF r.out = "return"
               THEN /\ queries' = Append(queries, year_month)
                    /\ locations_all' = merged
                    /\ cursor' = cursor + 1
                    /\ IF SweepDone(cursor)
                       THEN /\ artifact' = [exists |-> TRUE, text |-> json_dumps(merged)]
                            /\ lpc' = "constructed"
                       ELSE UNCHANGED <<artifact, lpc>>
                    /\ UNCHANGED lexc
               ELSE /\ lpc' = "sweep_error"
                    /\ lexc' = IF r.out = "none" THEN "TypeError" ELSE r.exc
                    /\ queries' = <<>>
                    /\ locations_all' = <<>>
                    /\ cursor' = 0
                    /\ UNCHANGED artifact
    /\ UNCHANGED <<presentYear, archive, all_locations, prevFailed>>
    /\ UNCHANGED <<decVars, stVars, tblVars>>

\* Locations.get_all_locations: the attribute, or AttributeError when
\* __init__ never assigned it.
get_all_locations ==
    /\ lpc = "constructed"
    /\ IF all_locations.set
       THEN lpc' = "got" /\ UNCHANGED lexc
       ELSE lpc' = "attr_error" /\ lexc' = "AttributeError"
    /\ UNCHANGED <<presentYear, archive, artifact, cursor, locations_all,
                   all_locations, queries, prevFailed>>
    /\ UNCHANGED <<decVars, stVars, tblVars>>

\* The process has ended; the program is run again. Only the file and the
\* archive outlive the process.
NewRun ==
    /\ lpc \in {"sweep_error", "got", "attr_error"}
    /\ lpc' = "start"
    /\ prevFailed' = (lpc = "sweep_error")
    /\ cursor' = 0
    /\ locations_all' = <<>>
    /\ all_locations' = Unset
    /\ queries' = <<>>
    /\ lexc' = ""
    /\ UNCHANGED <<presentYear, archive, artifact>>
    /\ UNCHANGED <<decVars, stVars, tblVars>>

(***************************************************************************)
(* 3. Station resolver, data fetcher, parallel orchestrator                *)
(***************************************************************************)

\* Station ids of a stored directory.
NumIds == 3
\* Station ids that carry the station's name in a stored directory.
NumPoolIds == 2
\* Worker processes of the pool (process_map's max_workers).
NumWorkers == 2
\* Windows a station of a stored directory may have been seen in.
NumWindows == 2
\* Longest work list handed to the pool.
MaxTasks == 3

\* map(tuple, ...) over a JSON list, and int(id[1:]) over a key "_<n>".
ToTuple(l) == Tup(l[1], l[2])
IntOfKey(id) == id[2]

\* (mutant) the names are compared without regard to case.
Upper(name) == IF name = "Lendava" THEN "LENDAVA" ELSE name
MatchingIds_AnyCase(df, name) ==
    {id \in df.index : Upper(df.loc[id].name) = Upper(name)}

\* all_locations.loc[all_locations["name"] == station_name].index
MatchingIds(df, name) == {id \in df.index : df.loc[id].name = name}

\* The for loop of get_dl_months_list over the ids order[i], order[i+1], ...
RECURSIVE ExtendLists(_, _, _)
ExtendLists(df, order, i) ==
    IF i > Len(order) THEN [station_ids |-> <<>>, year_months |-> <<>>]
    ELSE LET id == order[i]
             year_months_for_station == df.loc[id].year_months
             rest == ExtendLists(df, order, i + 1)
         IN  [station_ids |->
                 [j \in 1..Len(year_months_for_station) |-> IntOfKey(id)]
                 \o rest.station_ids,
              year_months |->
                 [j \in 1..Len(year_months_for_station) |->
                     ToTuple(year_months_for_station[j])]
                 \o rest.year_months]

\* get_dl_months_list, the matching rows taken in the order `order`.
get_dl_months_list(df, order) == ExtendLists(df, order, 1)

\* The orders in which the rows of S may be iterated.
Orders(S) == {o \in [1..Cardinality(S) -> S] : Range(o) = S}

\* What the archive holds for a station and a month: every request has data
\* of its own, under parameter handles that differ from response to response.
PARAM_NAMES == <<"t", "rr">>
Reading(station_id, ym, p) == ((station_id * 10000 + ym.y) * 100 + ym.m) * 10 + p
Handle(station_id, ym, p) ==
    IF (station_id + ym.m) % 2 = 0 THEN <<"p", p>> ELSE <<"p", 3 - p>>

\* The decoded data.xml response: "params" names each handle, "points" holds
\* the station's values by handle. A station without data is not in "points".
DataResponse(station_id, ym, status) ==
    [params |-> [h \in {Handle(station_id, ym, p) : p \in 1..2} |->
                    [name |-> PARAM_NAMES[CHOOSE p \in 1..2 :
                                            Handle(station_id, ym, p) = h]]],
     points |-> IF status = "no_station" THEN <<>>
                ELSE [k \in {IdKey(station_id)} |->
                        [h \in {Handle(station_id, ym, p) : p \in 1..2} |->
                            Reading(station_id, ym,
                                CHOOSE p \in 1..2 : Handle(station_id, ym, p) = h)]]]

FetchStatuses == {"ok", "http_error", "bad_json", "no_station"}

\* WebMetData._fetch: None on a non-success status.
_fetch(station_id, ym, status) ==
    CASE status = "http_error" -> [out |-> "none", exc |-> "", val |-> <<>>]
      [] status = "bad_json" -> [out |-> "raise", exc |-> "ValueError", val |-> <<>>]
      [] OTHER -> [out |-> "return", exc |-> "",
                   val |-> DataResponse(station_id, ym, status)]

\* The dict comprehension of fetch_data_for_month over a decoded response.
Remap(resp, station_id) ==
    LET values == resp.points[IdKey(station_id)]
    IN  [n \in {resp.params[h].name : h \in DOMAIN values} |->
            values[CHOOSE h \in DOMAIN values : resp.params[h].name = n]]

\* WebMetData.fetch_data_for_month: data["points"] on None raises TypeError,
\* a station missing from "points" raises KeyError.
fetch_data_for_month(station_id, ym, status) ==
    LET d == _fetch(station_id, ym, status) IN
    IF d.out = "raise" THEN d
    ELSE IF d.out = "none" THEN [out |-> "raise", exc |-> "TypeError", val |-> <<>>]
    ELSE IF IdKey(station_id) \notin DOMAIN d.val.points
         THEN [out |-> "raise", exc |-> "KeyError", val |-> <<>>]
         ELSE [out |-> "return", exc |-> "", val |-> Remap(d.val, station_id)]

\* output_dict[year_month] = value
SetItem(d, k, v) == [x \in DOMAIN d \cup {k} |-> IF x = k THEN v ELSE d[x]]

\* (mutant) the worker stores into its own copy of the dict.
mp_get_data_for_station_Local(output_dict, year_month, value) == output_dict

\* mp_get_data_for_station: the shared dict after the task stored `value`.
mp_get_data_for_station(output_dict, year_month, value) ==
    SetItem(output_dict, year_month, value)

NoReturn == [out |-> "none", exc |-> "", val |-> <<>>]
NotCalled == [called |-> FALSE, arg |-> <<>>]

Running == {i \in DOMAIN tasks : tasks[i].st = "running"}
Pending == {i \in DOMAIN tasks : tasks[i].st = "pending"}

\* get_dl_months_list inside download_data_for_station, on the directory that
\* Locations() loaded.
Resolve ==
    /\ ppc = "start"
    /\ lpc = "got"
    /\ \E order \in Orders(MatchingIds(all_locations.df, station_name)) :
          work' = get_dl_months_list(all_locations.df, order)
    /\ ppc' = "resolved"
    /\ UNCHANGED <<station_name, tasks, data, ret, tableInput>>
    /\ UNCHANGED <<decVars, locVars, tblVars>>

\* process_map(get_data_for_station, station_ids, year_months): one future per
\* pair of the zipped lists, all submitted at once.
Submit ==
    /\ ppc = "resolved"
    /\ LET n == IF Len(work.station_ids) < Len(work.year_months)
                THEN Len(work.station_ids) ELSE Len(work.year_months)
       IN  tasks' = [i \in 1..n |->
                        [station_id |-> work.station_ids[i],
                         year_month |-> work.year_months[i],
                         st |-> "pending", fetches |-> 0,
                         status |-> "", exc |-> ""]]
    /\ ppc' = "mapping"
    /\ UNCHANGED <<station_name, work, data, ret, tableInput>>
    /\ UNCHANGED <<decVars, locVars, tblVars>>

\* A free worker takes the oldest future not yet started.
WorkerStart(i) ==
    /\ ppc \in {"mapping", "raising"}
    /\ i \in Pending
    /\ \A j \in Pending : i <= j
    /\ Cardinality(Running) < NumWorkers
    /\ tasks' = [tasks EXCEPT ![i].st = "running"]
    /\ UNCHANGED <<station_name, work, data, ppc, ret, tableInput>>
    /\ UNCHANGED <<decVars, locVars, tblVars>>

\* What a future holds once its call has ended.
Finished(t, status, r) ==
    [t EXCEPT !.st = IF r.out = "return" THEN "done" ELSE "failed",
              !.fetches = @ + 1,
              !.status = status,
              !.exc = r.exc]

\* A worker runs mp_get_data_for_station for future i: the fetch, then the
\* store into the shared dict unless the fetch raised.
WorkerRun(i) ==
    /\ i \in Running
    /\ \E status \in FetchStatuses :
        LET t == tasks[i]
            r == fetch_data_for_month(t.station_id, t.year_month, status)
        IN  /\ tasks' = [tasks EXCEPT ![i] = Finished(t, status, r)]
            /\ data' = IF r.out = "return"
                       THEN mp_get_data_for_station(data, t.year_month, r.val)
                       ELSE data
    /\ UNCHANGED <<station_name, work, ppc, ret, tableInput>>
    /\ UNCHANGED <<decVars, locVars, tblVars>>

\* (mutant) the results of the futures are never taken, so nothing re-raises.
ResultRaises_Never(t) == FALSE

\* Whether taking the result of future t re-raises its exception in the parent.
ResultRaises(t) == t.st = "failed"

\* list(ex.map(...)) takes the results in submission order: the parent raises
\* at the first future that failed, those before it being done. The raise
\* leaves ex.map's iterator, which cancels the futures not yet handed to a
\* worker's queue; the oldest `queued` pending ones are in the queue already
\* and are run all the same.
RaiseInParent ==
    /\ ppc = "mapping"
    /\ \E i \in DOMAIN tasks :
        /\ ResultRaises(tasks[i])
        /\ \A j \in 1..(i - 1) : tasks[j].st = "done"
        /\ ret' = [out |-> "raise", exc |-> tasks[i].exc, val |-> <<>>]
    /\ \E queued \in 0..Cardinality(Pending) :
        tasks' = [k \in DOMAIN tasks |->
                    IF k \in Pending /\ k > Len(tasks) - Cardinality(Pending) + queued
                    THEN [tasks[k] EXCEPT !.st = "cancelled"]
                    ELSE tasks[k]]
    /\ ppc' = "raising"
    /\ UNCHANGED <<station_name, work, data, tableInput>>
    /\ UNCHANGED <<decVars, locVars, tblVars>>

\* The executor's shutdown has waited for the running futures; the exception
\* leaves download_data_for_station.
Propagate ==
    /\ ppc = "raising"
    /\ Pending = {} /\ Running = {}
    /\ ppc' = "raised"
    /\ UNCHANGED <<station_name, work, tasks, data, ret, tableInput>>
    /\ UNCHANGED <<decVars, locVars, tblVars>>

\* Every result was taken without a raise: return dict(data).
ReturnData ==
    /\ ppc = "mapping"
    /\ \A i \in DOMAIN tasks :
        tasks[i].st \in {"done", "failed"} /\ ~ResultRaises(tasks[i])
    /\ ret' = [out |-> "return", exc |-> "", val |-> data]
    /\ ppc' = "returned"
    /\ UNCHANGED <<station_name, work, tasks, data, tableInput>>
    /\ UNCHANGED <<decVars, locVars, tblVars>>

\* __main__: cleaned = clean_station_data(data)
HandToTableBuilder ==
    /\ ppc = "returned"
    /\ tableInput' = [called |-> TRUE, arg |-> ret.val]
    /\ ppc' = "cleaning"
    /\ UNCHANGED <<station_name, work, tasks, data, ret>>
    /\ UNCHANGED <<decVars, locVars, tblVars>>

(***************************************************************************)
(* 4. Table builder: clean_station_data                                    *)
(***************************************************************************)

\* Months and parameters a raw mapping may hold.
NumRows == 2
NumParams == 2

\* A cell: a number, a string, or missing (None, NaN).
Num(n) == [t |-> "num", n |-> n, s |-> ""]
Str(s) == [t |-> "str", n |-> 0, s |-> s]
NaN == [t |-> "nan", n |-> 0, s |-> ""]

\* Raw values: a number, the decoder's '' placeholder, a numeral, other text,
\* and null.
RawValues == {Num(1), Str(""), Str("7"), Str("x"), NaN}

\* pd.to_numeric(errors="coerce") on one cell.
ToNumeric(c) ==
    IF c.t = "str"
    THEN IF c.s = "7" THEN Num(7) ELSE NaN
    ELSE c

Before(a, b) == a.y < b.y \/ (a.y = b.y /\ a.m < b.m)

\* The keys of S in ascending (year, month) order.
RECURSIVE SortedIndex(_)
SortedIndex(S) ==
    IF S = {} THEN <<>>
    ELSE LET least == CHOOSE a \in S : \A b \in S \ {a} : Before(a, b)
         IN  <<least>> \o SortedIndex(S \ {least})

\* pd.DataFrame(station_data).transpose(): a row per key, a column per
\* parameter any row has, NaN where a row lacks the parameter.
Frame(station_data) ==
    LET cols == UNION {DOMAIN station_data[k] : k \in DOMAIN station_data}
    IN  [rows |-> DOMAIN station_data,
         cols |-> cols,
         cell |-> [k \in DOMAIN station_data |->
                     [c \in cols |-> IF c \in DOMAIN station_data[k]
                                     THEN station_data[k][c] ELSE NaN]]]

\* df.dropna(axis=1, how="all")
DropEmptyColumns(df) ==
    LET keep == {c \in df.cols : \E k \in df.rows : df.cell[k][c].t # "nan"}
    IN  [rows |-> df.rows, cols |-> keep,
         cell |-> [k \in df.rows |-> [c \in keep |-> df.cell[k][c]]]]

\* df.dropna(axis=0, how="all")
DropEmptyRows(df) ==
    LET keep == {k \in df.rows : \E c \in df.cols : df.cell[k][c].t # "nan"}
    IN  [rows |-> keep, cols |-> df.cols,
         cell |-> [k \in keep |-> df.cell[k]]]

\* df[df.columns].apply(pd.to_numeric, errors="coerce")
Coerce(df) ==
    [rows |-> df.rows, cols |-> df.cols,
     cell |-> [k \in df.rows |-> [c \in df.cols |-> ToNumeric(df.cell[k][c])]]]

\* clean_station_data: the frame sorted by (year, month), its empty columns
\* and then its empty rows dropped, and then every cell coerced.
clean_station_data(station_data) ==
    LET df == Coerce(DropEmptyRows(DropEmptyColumns(Frame(station_data))))
    IN  [out |-> "return", index |-> SortedIndex(df.rows),
         cols |-> df.cols, cell |-> df.cell]

NoTable == [out |-> "none", index |-> <<>>, cols |-> {}, cell |-> <<>>]

COLUMN_NAMES == <<"t", "rr", "sn">>
ParamSet == {COLUMN_NAMES[i] : i \in 1..NumParams}
RowKeys == {WindowList[i] : i \in 1..NumRows}

\* The raw mappings: some months, each with some parameters, at least one
\* value not missing.
RawMappings ==
    {m \in UNION {[K -> UNION {[P -> RawValues] : P \in SUBSET ParamSet}] :
                    K \in SUBSET RowKeys \ {{}}} :
        \E k \in DOMAIN m : \E c \in DOMAIN m[k] : m[k][c].t # "nan"}

BuildTable ==
    /\ tpc = "input"
    /\ table' = clean_station_data(raw)
    /\ tpc' = "done"
    /\ UNCHANGED <<raw, decVars, locVars, stVars>>

(***************************************************************************)
(* Specifications                                                          *)
(***************************************************************************)

LocIdle ==
    /\ presentYear = SWEEP_END - 1
    /\ archive = <<>>
    /\ artifact = NoFile
    /\ lpc = "idle"
    /\ cursor = 0
    /\ locations_all = <<>>
    /\ all_locations = Unset
    /\ queries = <<>>
    /\ lexc = ""
    /\ prevFailed = FALSE

StIdle ==
    /\ station_name = ""
    /\ work = [station_ids |-> <<>>, year_months |-> <<>>]
    /\ tasks = <<>>
    /\ data = <<>>
    /\ ppc = "idle"
    /\ ret = NoReturn
    /\ tableInput = NotCalled

TblIdle == raw = <<>> /\ table = NoTable /\ tpc = "idle"

\* ---- the decoder on every body
InitDecode ==
    /\ body \in Bodies
    /\ decoded = NoOutcome
    /\ dpc = "input"
    /\ LocIdle /\ StIdle /\ TblIdle

NextDecode == Decode

SpecDecode == InitDecode /\ [][NextDecode]_vars

\* ---- the location directory, from a first run without locations_all.txt
InitSweep ==
    /\ presentYear \in {SWEEP_END - 1, SWEEP_END}
    /\ archive \in [StationNums -> [name : {STATION_NAME}, active : Activities]]
    /\ artifact = NoFile
    /\ lpc = "start"
    /\ cursor = 0
    /\ locations_all = <<>>
    /\ all_locations = Unset
    /\ queries = <<>>
    /\ lexc = ""
    /\ prevFailed = FALSE
    /\ DecIdle /\ StIdle /\ TblIdle

NextSweep ==
    \/ Construct
    \/ SweepStep
    \/ get_all_locations
    \/ NewRun

SpecSweep == InitSweep /\ [][NextSweep]_vars

\* ---- the table builder on every raw mapping
InitClean ==
    /\ raw \in RawMappings
    /\ table = NoTable
    /\ tpc = "input"
    /\ DecIdle /\ LocIdle /\ StIdle

NextClean == BuildTable

SpecClean == InitClean /\ [][NextClean]_vars

\* ---- get_dl_months_list, locations_all.txt being there

\* The i-th smallest element of a set of numbers.
Nth(S, i) == CHOOSE x \in S : Cardinality({y \in S : y <= x}) = i

\* The year_months a sweep can have stored for a station seen in few windows:
\* the windows of I in the order of the sweep, as JSON lists.
StoredWindows(I) == [i \in 1..Cardinality(I) |-> JsonList(WindowList[Nth(I, i)])]

\* The directories an earlier complete sweep can have written for stations
\* `nums` with names among `names`.
StoredDirectories(nums, names) ==
    UNION {[K -> [name : names,
                  year_months : {StoredWindows(I) :
                                   I \in SUBSET (1..NumWindows) \ {{}}}]] :
             K \in SUBSET {IdKey(n) : n \in nums}}

\* The archive has stations, so the directory of a complete sweep has records
\* (the frame of an empty one has no "name" column to compare).
InitResolve ==
    /\ station_name = STATION_NAME
    /\ artifact \in {[exists |-> TRUE, text |-> d] :
                       d \in {x \in StoredDirectories(1..NumIds, StationNames) :
                                DOMAIN x # {}}}
    /\ presentYear = SWEEP_END - 1
    /\ archive = <<>>
    /\ lpc = "start"
    /\ cursor = 0
    /\ locations_all = <<>>
    /\ all_locations = Unset
    /\ queries = <<>>
    /\ lexc = ""
    /\ prevFailed = FALSE
    /\ work = [station_ids |-> <<>>, year_months |-> <<>>]
    /\ tasks = <<>>
    /\ data = <<>>
    /\ ppc = "start"
    /\ ret = NoReturn
    /\ tableInput = NotCalled
    /\ DecIdle /\ TblIdle

NextResolve ==
    \/ Construct
    \/ get_all_locations
    \/ Resolve

SpecResolve == InitResolve /\ [][NextResolve]_vars

\* ---- download_data_for_station from the return of get_dl_months_list on

\* The months a directory holds, over all its stations.
MonthsIn(d) ==
    Cardinality({e \in (DOMAIN d) \X (1..NumWindows) :
                    e[2] <= Len(d[e[1]].year_months)})

\* The work lists get_dl_months_list can return: those of the directories of
\* at most MaxTasks months of the station (records of another name add no
\* work item).
ResolvableWork ==
    {get_dl_months_list(LoadDataFrame(d), order) :
        <<d, order>> \in
            {e \in {x \in StoredDirectories(1..NumPoolIds, {STATION_NAME}) :
                        MonthsIn(x) <= MaxTasks}
                   \X UNION {Orders(S) : S \in SUBSET {IdKey(n) : n \in 1..NumPoolIds}} :
                Range(e[2]) = DOMAIN e[1]}}

Init ==
    /\ station_name = STATION_NAME
    /\ work \in ResolvableWork
    /\ tasks = <<>>
    /\ data = <<>>
    /\ ppc = "resolved"
    /\ ret = NoReturn
    /\ tableInput = NotCalled
    /\ DecIdle /\ LocIdle /\ TblIdle

Next ==
    \/ Submit
    \/ \E i \in DOMAIN tasks : WorkerStart(i)
    \/ \E i \in DOMAIN tasks : WorkerRun(i)
    \/ RaiseInParent
    \/ Propagate
    \/ ReturnData
    \/ HandToTableBuilder

Spec == Init /\ [][Next]_vars

(***************************************************************************)
(* Properties                                                              *)
(***************************************************************************)

\* C1: whenever the data request of a work item ended in a non-success HTTP
\* status, fetch_data_for_month returned (absence) and raised nothing, so the
\* item's future ended normally.
C1_AbsenceOnHttpFailure ==
    \A i \in DOMAIN tasks :
        tasks[i].status = "http_error" => tasks[i].st = "done" /\ tasks[i].exc = ""

\* C2: pujs_to_json either returns a mapping decoded from an enveloped body, or
\* ends in ValueError carrying the reconstructed inner text; nothing else.
C2_OnlyDecodeError ==
    dpc = "done" =>
        IF decoded.out = "return"
        THEN decoded.val = "dict" /\ HasEnvelope(body)
        ELSE /\ decoded.out = "raise"
             /\ decoded.exc = "ValueError"
             /\ body.xml = "text"
             /\ decoded.arg = DataStr(body.text)

\* C3: once Locations() is constructed, in either start state, the artifact
\* exists and get_all_locations gives the directory deserialized from it.
C3_DirectoryInBothStartStates ==
    lpc \in {"constructed", "got", "attr_error"} =>
        /\ artifact.exists
        /\ all_locations.set
        /\ all_locations.df = LoadDataFrame(artifact.text)
        /\ lpc # "attr_error"

\* The pairs (station id, (year, month)) the stored directory holds under the
\* name asked for.
NamedPairs ==
    {<<e[1][2], Tup(artifact.text[e[1]].year_months[e[2]][1],
                    artifact.text[e[1]].year_months[e[2]][2])>> :
        e \in {x \in (DOMAIN artifact.text) \X (1..NumWindows) :
                 /\ artifact.text[x[1]].name = station_name
                 /\ x[2] <= Len(artifact.text[x[1]].year_months)}}

WorkPairs == {<<work.station_ids[i], work.year_months[i]>> : i \in DOMAIN work.station_ids}

ExpectedData(station_id, ym) ==
    [n \in Range(PARAM_NAMES) |->
        Reading(station_id, ym, CHOOSE p \in DOMAIN PARAM_NAMES : PARAM_NAMES[p] = n)]

\* C5: when download_data_for_station has returned, the fetch has run once for
\* each work item of the resolver, the mapping's keys are the items' (year,
\* month), and each value is the fetch result of an item of that key.
C5_OncePerItemKeyedByMonth ==
    ppc \in {"returned", "cleaning"} =>
        /\ Len(tasks) = Len(work.station_ids)
        /\ \A i \in DOMAIN tasks :
            /\ tasks[i].station_id = work.station_ids[i]
            /\ tasks[i].year_month = work.year_months[i]
            /\ tasks[i].fetches = 1
        /\ ret.out = "return"
        /\ DOMAIN ret.val = Range(work.year_months)
        /\ \A k \in DOMAIN ret.val :
            \E i \in DOMAIN tasks :
                /\ tasks[i].year_month = k
                /\ ret.val[k] = ExpectedData(tasks[i].station_id, k)

\* The pool has run the items of two station ids and the call has returned.
C5_Witness ==
    /\ ppc = "returned"
    /\ Len(tasks) >= 3
    /\ Cardinality({tasks[i].station_id : i \in DOMAIN tasks}) = 2
    /\ Cardinality(DOMAIN ret.val) = 2

\* C6: once a task has raised, download_data_for_station returns no mapping and
\* nothing reaches the table builder; the call can only go on to raise.
C6_FailureAbortsBatch ==
    (\E i \in DOMAIN tasks : tasks[i].st = "failed") =>
        /\ ppc \in {"mapping", "raising", "raised"}
        /\ ret.out # "return"
        /\ ~tableInput.called
        /\ ppc # "raised" => ENABLED Next
        /\ ppc = "raised" => ret.out = "raise"

\* The call has raised although other tasks had stored their results.
C6_Witness ==
    /\ ppc = "raised"
    /\ DOMAIN data # {}
    /\ \E i \in DOMAIN tasks : tasks[i].st = "done"

\* C7: the table has no column and no row whose cells are all missing, every
\* cell is a number or missing, and building it raised nothing.
C7_NoEmptyColumnsOrRows ==
    tpc = "done" =>
        /\ table.out = "return"
        /\ \A c \in table.cols : \E k \in Range(table.index) : table.cell[k][c].t # "nan"
        /\ \A k \in Range(table.index) : \E c \in table.cols : table.cell[k][c].t # "nan"
        /\ \A k \in Range(table.index) : \A c \in table.cols :
              table.cell[k][c].t \in {"num", "nan"}

\* The windows from 1948 to the present year.
WindowsToPresent ==
    {Tup(y, m) : y \in ARCHIVE_START..presentYear, m \in MONTH_FIRST..(MONTH_END - 1)}

\* C8: after a completed sweep every window from 1948 to the present year was
\* asked for once, and a station has a record iff some window returned it,
\* listing once each window that returned it and no other.
C8_SweepCoversToPresent ==
    (lpc = "constructed" /\ queries # <<>>) =>
        /\ Range(queries) = WindowsToPresent
        /\ Len(queries) = Cardinality(WindowsToPresent)
        /\ DOMAIN locations_all =
              {IdKey(n) : n \in {x \in StationNums :
                  \E w \in WindowsToPresent : Active(archive[x].active, w)}}
        /\ \A id \in DOMAIN locations_all :
              /\ Range(locations_all[id].year_months) =
                    {w \in WindowsToPresent : Active(archive[id[2]].active, w)}
              /\ Len(locations_all[id].year_months) =
                    Cardinality(Range(locations_all[id].year_months))

\* The directory of a sweep in which every window was fetched and merged.
FullDirectory ==
    [k \in {IdKey(n) : n \in {x \in StationNums :
                \E i \in DOMAIN WindowList : Active(archive[x].active, WindowList[i])}}
        |-> [name |-> archive[k[2]].name,
             year_months |-> SelectSeq(WindowList,
                                LAMBDA w : Active(archive[k[2]].active, w))]]

C9_NoArtifactUnlessComplete ==
    /\ lpc \in {"sweep", "sweep_error"} => ~artifact.exists
    /\ artifact.exists => artifact.text = json_dumps(FullDirectory)

C9_WriteAndRestart ==
    /\ (~artifact.exists /\ artifact'.exists) => queries' = WindowList
    /\ (lpc = "start" /\ prevFailed /\ lpc' # "start") =>
          /\ lpc' = "sweep"
          /\ cursor' = 1
          /\ locations_all' = <<>>
          /\ queries' = <<>>
          /\ ~all_locations'.set

\* C9: locations_all.txt is written only by a sweep that has fetched and merged
\* every window; a sweep that failed leaves no file, and the construction of the
\* next run starts the sweep at the first window with nothing loaded.
C9_NoPartialDirectory ==
    [](C9_NoArtifactUnlessComplete) /\ [][C9_WriteAndRestart]_vars

\* A run after a failed sweep has started the sweep again.
C9_Witness ==
    /\ prevFailed
    /\ lpc = "sweep"
    /\ cursor = 1
    /\ ~artifact.exists

\* The mapping when the work items run one after the other in list order.
RECURSIVE SequentialData(_)
SequentialData(n) ==
    IF n = 0 THEN <<>>
    ELSE SetItem(SequentialData(n - 1), tasks[n].year_month,
                 ExpectedData(tasks[n].station_id, tasks[n].year_month))

\* C10: the mapping download_data_for_station returns is the one of the work
\* items run in list order, whatever the order in which the workers finished.
C10_OrderIndependent ==
    ppc = "returned" => ret.val = SequentialData(Len(tasks))

====
